---- MODULE Spec2Model ----
(***************************************************************************)
(* Model of evalcontrol.AD9959 (src/evalcontrol/ad9959.py): the controller *)
(* of an AD9959 evaluation board behind a USB bridge.                      *)
(*                                                                         *)
(* A Python string of '0'/'1' characters is a sequence of 0/1; the other   *)
(* characters bin() can produce are the codes ChB ('b') and ChMinus ('-'). *)
(* Frequencies are integers in MHz, phases in degrees, ramp times in ns.   *)
(* Every transport call (bulkWrite, bulkRead, reset) is one step and one   *)
(* entry of `log`; a call that raises usb.USBError is logged with          *)
(* ok = FALSE.  The bridge is taken to answer a register read of `size`    *)
(* bytes with `size` bytes, each 0 or 1.  Float arithmetic is modelled as  *)
(* exact rational arithmetic with Python's round-half-to-even.             *)
(***************************************************************************)
EXTENDS Integers, Sequences, FiniteSets, TLC

\* ------------------------------------------------------------------ bounds
\* number of distinct bit patterns a register read may return
NumPatterns == 3
\* longest channel list handed to the operations that loop over channels
MaxLoopChannels == 2

\* ------------------------------------------------------- program constants
\* 255e6 Hz, in MHz (set_clock_multiplier's VCO-gain threshold)
VcoGainThreshold == 255

\* characters other than '0' and '1' that bin() produces
ChB == 2
ChMinus == 3

\* ------------------------------------------------------------ Python idioms
Min(a, b) == IF a < b THEN a ELSE b
Max(a, b) == IF a > b THEN a ELSE b

\* s[lo:hi] (0-based, half open, clamped like a Python slice; lo, hi >= 0)
PySlice(s, lo, hi) == SubSeq(s, lo + 1, Min(hi, Len(s)))
\* s[lo:]
PyFrom(s, lo) == SubSeq(s, lo + 1, Len(s))
\* s[::-1]
Reverse(s) == [i \in 1..Len(s) |-> s[Len(s) + 1 - i]]
\* n * '0'
Zeros(n) == [i \in 1..n |-> 0]

RECURSIVE Digits(_)
\* the binary digits of n >= 0, most significant first; one '0' for zero
Digits(n) == IF n < 2 THEN <<n>> ELSE Append(Digits(n \div 2), n % 2)

\* bin(n): '0b...' or '-0b...'
PyBin(n) == IF n < 0 THEN <<ChMinus, 0, ChB>> \o Digits(-n) ELSE <<0, ChB>> \o Digits(n)

RECURSIVE LStrip0b(_)
\* s.lstrip('0b'): drops every leading '0' and 'b'
LStrip0b(s) == IF s # <<>> /\ Head(s) \in {0, ChB} THEN LStrip0b(Tail(s)) ELSE s

\* if len(s) < w: s = (w-len(s))*'0' + s
ZFill(s, w) == IF Len(s) < w THEN Zeros(w - Len(s)) \o s ELSE s

\* whether every character is '0' or '1' (what bytearray.fromhex accepts of
\* the ' 0' + b pairs the code builds)
IsBits(s) == \A i \in 1..Len(s) : s[i] \in {0, 1}

\* ------------------------------------------------------ bridge wire format
\* bin(register).lstrip('0b') padded to 7 characters
register_bin(register) == ZFill(LStrip0b(PyBin(register)), 7)

\* _write_to_dds_register: '00' + register_bin + ' ' + word, one byte per bit
write_message(register, word) == <<0>> \o register_bin(register) \o word

\* _read_from_register: '07 00 ' + size_hex
begin_readback(size) == <<7, 0, size>>

\* mutant of readout_command: the read command starts with the write bit
readout_command_as_write(register) == <<0>> \o register_bin(register)

\* _read_from_register: '01' + register_bin
readout_command(register) == <<1>> \o register_bin(register)

\* _read_from_register: '04 00'
end_readback == <<4, 0>>

\* _load_IO: '0C 00'
load_message == <<12, 0>>

\* _update_IO: '0C 10'
update_message == <<12, 16>>

\* the k-th bit pattern of n bits a register read may return:
\* all zeros, all ones, then stripes of growing width
Pattern(k, n) == [i \in 1..n |-> IF k < 2 THEN k ELSE ((i - 1) \div (k - 1)) % 2]

\* what dh.bulkRead(self._ep88, size) returns for the j-th register read of an
\* operation whose first read returns pattern k: successive reads of one
\* operation return successive patterns
Readout(k, j, size) == Pattern((k + j) % NumPatterns, size)

\* ------------------------------------------------------ fixed-point words
\* round(a / b) for b > 0, half to even (Python 3 round)
RoundDiv(a, b) == LET q == a \div b
                      r == a % b
                  IN  IF 2 * r > b \/ (2 * r = b /\ q % 2 = 1) THEN q + 1 ELSE q

RECURSIVE StripZeros(_)
\* digits without leading zeros, one '0' for zero
StripZeros(bits) == IF Len(bits) > 1 /\ Head(bits) = 0 THEN StripZeros(Tail(bits)) ELSE bits

\* the digits of int(round(f / s * (2**32 - 1))) for f >= 0, s > 0, computed
\* in 16-bit halves: 2**32 - 1 = 65535 * 65537, and with f * 65535 = a1*s + a0
\* the quotient is a1 * 65537 + (a0 * 65537) \div s
RoundFraction32(f, s) ==
    LET a1 == (f * 65535) \div s
        a0 == (f * 65535) % s
        b == (a0 * 65537) \div s
        r == (a0 * 65537) % s
        odd == (a1 + b) % 2 = 1
        up == IF 2 * r > s \/ (2 * r = s /\ odd) THEN 1 ELSE 0
        low == a1 + b + up
        hi == a1 + (low \div 65536)
    IN  StripZeros(Digits(hi) \o ZFill(Digits(low % 65536), 16))

\* bin(int(round(frequency / system_clock * (2**32 - 1)))).lstrip('0b'),
\* padded to 32 characters (set_frequency, configure_linear_sweep)
frequency_fraction_bin(frequency, system_clock) ==
    LET mag == RoundFraction32(IF frequency < 0 THEN -frequency ELSE frequency, system_clock)
        b == IF frequency < 0 /\ mag # <<0>> THEN <<ChMinus, 0, ChB>> \o mag
             ELSE <<0, ChB>> \o mag
    IN  ZFill(LStrip0b(b), 32)

\* whether int(s, base=2) accepts the string
int_base2_ok(s) ==
    \/ s # <<>> /\ IsBits(s)
    \/ /\ Len(s) > 3
       /\ s[1] = ChMinus /\ s[2] = 0 /\ s[3] = ChB
       /\ IsBits(PyFrom(s, 3))

\* mutant of phase_fraction_bin: the phase is scaled to 2**16 - 1
phase_fraction_bin_full_scale(phase) ==
    ZFill(LStrip0b(PyBin(RoundDiv(phase * 65535, 360))), 16)

\* set_phase: bin(round(phase / 360 * 2**14)).lstrip('0b') padded to 16
phase_fraction_bin(phase) == ZFill(LStrip0b(PyBin(RoundDiv(phase * 16384, 360))), 16)

\* mutant of rrw_bin: the ramp-rate word is not clamped
rrw_bin_unclamped(rr, system_clock) ==
    ZFill(PyFrom(PyBin(RoundDiv(rr * system_clock, 4000) - 1), 2), 8)

\* configure_linear_sweep: one ramp-rate byte; rr in ns, system clock in MHz,
\* so that rr / (4 / system_clock) = rr * system_clock / 4000
rrw_bin(rr, system_clock) ==
    LET fraction == RoundDiv(rr * system_clock, 4000)
        clamped == IF fraction < 1 THEN 1 ELSE IF fraction > 256 THEN 256 ELSE fraction
    IN  ZFill(PyFrom(PyBin(clamped - 1), 2), 8)

\* ------------------------------------------------------- channel selection
\* a channel argument: None, an integer, or a list of integers
ChanNone == [t |-> "none", v |-> <<>>]
ChanInt(n) == [t |-> "int", v |-> <<n>>]
ChanList(l) == [t |-> "list", v |-> l]

\* if np.issubdtype(type(channel), np.integer): channels = [channel]
\* else: channels = [c for c in channel]
channels_of(channel) == channel.v

\* whether list('0000')[ch] exists (Python accepts -4..3)
index_ok(ch) == ch \in -4..3

\* the 0-based position Python's list indexing gives ch
py_index(ch) == IF ch < 0 THEN ch + 4 ELSE ch

\* channel_select_bin after the loop `channel_select_bin[ch] = '1'`
channel_bits_set(channels) ==
    [i \in 1..4 |-> IF \E j \in 1..Len(channels) : py_index(channels[j]) + 1 = i
                    THEN 1 ELSE 0]

\* mutant of channel_select_bin: the reversal is left out
channel_select_bin_not_reversed(channels) == channel_bits_set(channels)

\* channel_select_bin = channel_select_bin[::-1]
channel_select_bin(channels) == Reverse(channel_bits_set(channels))

\* ------------------------------------------------- read-modify-write words
\* mutant of csr_new_bin: the four bits read are replaced by zeros
csr_new_bin_drop_old(select_bin, csr_old_bin) == PySlice(select_bin, 0, 4) \o Zeros(4)

\* _channel_select: channel_select_bin[:4] + csr_old_bin[4:]
csr_new_bin(select_bin, csr_old_bin) == PySlice(select_bin, 0, 4) \o PyFrom(csr_old_bin, 4)

\* bin(factor).lstrip('0b') padded to 5 characters
multi_bin(factor) == ZFill(LStrip0b(PyBin(factor)), 5)

\* mutant of fr1_new_bitstring: the VCO gain bit is never forced
fr1_new_bitstring_gain_kept(fr1_old, mbin, system_clock) ==
    PySlice(fr1_old, 0, 1) \o mbin \o PyFrom(fr1_old, 6)

\* set_clock_multiplier: fr1_old[0] + multi_bin + fr1_old[6:], VCO gain bit
\* forced when the system clock exceeds 255 MHz
fr1_new_bitstring(fr1_old, mbin, system_clock) ==
    LET new == PySlice(fr1_old, 0, 1) \o mbin \o PyFrom(fr1_old, 6)
    IN  IF system_clock > VcoGainThreshold THEN <<1>> \o Tail(new) ELSE new

\* toggle_autoclear_phase_accumulations: cfr[21] = (cfr[21] + 1) % 2
cfr_toggled(cfr) == [cfr EXCEPT ![22] = (@ + 1) % 2]

\* mutant of cfr_new_bin_modulation: the type is written to the last two bits
cfr_new_bin_modulation_low(modulation_type_bin, cfr_old_bin) ==
    PySlice(cfr_old_bin, 0, 22) \o modulation_type_bin

\* _enable_channel_modulation: modulation_type_bin + cfr_old_bin[2:]
cfr_new_bin_modulation(modulation_type_bin, cfr_old_bin) ==
    modulation_type_bin \o PyFrom(cfr_old_bin, 2)

\* enable_modulation: fr_old_bin[:14] + level_bin + fr_old_bin[16:], then
\* [:9] + PPC_bin + [12:] when a PPC word is given
fr_new_level(fr_old_bin, level_bin, PPC_bin) ==
    LET lvl == PySlice(fr_old_bin, 0, 14) \o level_bin \o PyFrom(fr_old_bin, 16)
    IN  IF PPC_bin = <<>> THEN lvl
        ELSE PySlice(lvl, 0, 9) \o PPC_bin \o PyFrom(lvl, 12)

\* _enable_channel_linear_sweep: cfr_old_bin[:9] + ls_enable_bin + cfr_old_bin[10:]
cfr_new_bin_sweep(cfr_old_bin, ls_enable_bin) ==
    PySlice(cfr_old_bin, 0, 9) \o ls_enable_bin \o PyFrom(cfr_old_bin, 10)

\* ------------------------------------------------------------ instructions
\* The body of an operation, unrolled for its arguments, is a sequence of
\* instructions: the helper calls it makes and the exceptions it raises.
\*   read   _read_from_register(reg, size); keep = the result is used
\*   write  _write_to_dds_register(reg, word); word = literal arg, or built
\*          from the last readout as `spec` says
\*   load   _load_IO()        update  _update_IO()
\*   reset  _reset_usb_handler()
\*   raise  a Python exception raised between transport calls
Instr == [k |-> "", reg |-> 0, size |-> 0, keep |-> FALSE, spec |-> "", arg |-> <<>>, exc |-> ""]
Read(reg, size, keep) == [Instr EXCEPT !.k = "read", !.reg = reg, !.size = size, !.keep = keep]
Write(reg, spec, arg) == [Instr EXCEPT !.k = "write", !.reg = reg, !.spec = spec, !.arg = arg]
Load == [Instr EXCEPT !.k = "load"]
Update == [Instr EXCEPT !.k = "update"]
ResetDev == [Instr EXCEPT !.k = "reset"]
Raise(exc) == [Instr EXCEPT !.k = "raise", !.exc = exc]
\* a message built by bytearray.fromhex and kept, not sent
Message(reg, spec, arg) == [Instr EXCEPT !.k = "message", !.reg = reg, !.spec = spec, !.arg = arg]

\* mutant of latch_prog: Update I/O issued whatever auto_update is
latch_prog_always_update(auto) == <<Load, Update>>

\* self._load_IO(); if self.auto_update: self._update_IO()
latch_prog(auto) == <<Load>> \o (IF auto THEN <<Update>> ELSE <<>>)

\* mutant of channel_select_prog: an invalid channel is skipped silently
channel_select_prog_skip_invalid(chan) ==
    LET channels == channels_of(chan)
    IN  IF \E j \in 1..Len(channels) : ~index_ok(channels[j])
        THEN <<>>
        ELSE <<Read(0, 8, TRUE), Write(0, "csr", channel_select_bin(channels))>>

\* _channel_select(channel): the mask loop raises IndexError before any I/O
channel_select_prog(chan) ==
    LET channels == channels_of(chan)
    IN  IF \E j \in 1..Len(channels) : ~index_ok(channels[j])
        THEN <<Raise("IndexError")>>
        ELSE <<Read(0, 8, TRUE), Write(0, "csr", channel_select_bin(channels))>>

\* `if channel is None: channel = self.channel`
resolve(chan, default) == IF chan.t = "none" THEN default ELSE chan

\* mutant of clock_after: the factor is not checked
clock_after_unchecked(factor, ref, old) == IF factor = 1 THEN ref ELSE ref * factor

\* set_clock_multiplier: the value system_clock_frequency has once the
\* argument check has passed (unchanged when the assert fails)
clock_after(factor, ref, old) ==
    IF factor = 1 THEN ref
    ELSE IF factor \in 4..20 THEN ref * factor
    ELSE old

\* set_clock_multiplier(factor)
set_clock_multiplier_prog(factor, auto) ==
    IF factor = 1 \/ factor \in 4..20
    THEN <<Read(1, 24, TRUE), Write(1, "fr1_mult", multi_bin(IF factor = 1 THEN 0 ELSE factor))>>
         \o latch_prog(auto)
    ELSE <<Raise("AssertionError")>>

\* the register set_frequency writes for channel_word
frequency_register(channel_word) == IF channel_word = 0 THEN 4 ELSE channel_word - 1 + 10

\* a 32-bit frequency word: int(fraction_bin, base=2) is evaluated for a
\* message before the word is written
frequency_word_prog(register, frequency, system_clock) ==
    LET fraction_bin == frequency_fraction_bin(frequency, system_clock)
    IN  IF int_base2_ok(fraction_bin) THEN <<Write(register, "literal", fraction_bin)>>
        ELSE <<Raise("ValueError")>>

\* set_frequency(frequency, channel, channel_word)
set_frequency_prog(frequency, chan, channel_word, system_clock, auto) ==
    IF ~(frequency <= system_clock) \/ ~(channel_word < 16)
    THEN <<Raise("AssertionError")>>
    ELSE channel_select_prog(chan)
         \o frequency_word_prog(frequency_register(channel_word), frequency, system_clock)
         \o latch_prog(auto)

\* precompute_frequency_word: channel_select_bin, built by the method's own
\* copy of the mask loop
precompute_channel_select_bin(channels) == Reverse(channel_bits_set(channels))

\* precompute_frequency_word: channel_select_bin[:4] + csr_old_bin[4:]
precompute_csr_new_bin(select_bin, csr_old_bin) ==
    PySlice(select_bin, 0, 4) \o PyFrom(csr_old_bin, 4)

\* precompute_frequency_word: bin(round(fraction * (2**32 - 1))).lstrip('0b')
\* padded to 32 characters
precompute_fraction_bin(frequency, system_clock) ==
    LET mag == RoundFraction32(IF frequency < 0 THEN -frequency ELSE frequency, system_clock)
        b == IF frequency < 0 /\ mag # <<0>> THEN <<ChMinus, 0, ChB>> \o mag
             ELSE <<0, ChB>> \o mag
        fraction_bin == LStrip0b(b)
    IN  IF Len(fraction_bin) < 32 THEN Zeros(32 - Len(fraction_bin)) \o fraction_bin
        ELSE fraction_bin

\* mutant of precompute_register_bin: the register name is not padded
precompute_register_bin_unpadded(register) == LStrip0b(PyBin(register))

\* precompute_frequency_word: bin(0x00) / bin(0x04) stripped of '0b' and
\* padded to 7 characters
precompute_register_bin(register) ==
    LET stripped == LStrip0b(PyBin(register))
    IN  IF Len(stripped) < 7 THEN Zeros(7 - Len(stripped)) \o stripped ELSE stripped

\* precompute_frequency_word: message = '00' + register_bin + ' ' + word
precompute_message(register, word) == <<0>> \o precompute_register_bin(register) \o word

\* the word of a precomputed message, from the channel-select register read
message_word(ins, readout) ==
    IF ins.spec = "csr" THEN precompute_csr_new_bin(ins.arg, readout) ELSE ins.arg

\* precompute_frequency_word(channel, frequency): the channel list (None is
\* not iterable), the mask loop, the read of 0x00, the channel-select
\* message, then the frequency assert and the frequency message; nothing is
\* written and nothing latched
precompute_frequency_word_prog(chan, frequency, system_clock) ==
    LET channels == channels_of(chan)
        fraction_bin == precompute_fraction_bin(frequency, system_clock)
    IN  IF chan.t = "none" THEN <<Raise("TypeError")>>
        ELSE IF \E j \in 1..Len(channels) : ~index_ok(channels[j])
        THEN <<Raise("IndexError")>>
        ELSE <<Read(0, 8, TRUE), Message(0, "csr", precompute_channel_select_bin(channels))>>
             \o (IF ~(frequency <= system_clock) THEN <<Raise("AssertionError")>>
                 ELSE IF ~int_base2_ok(fraction_bin) THEN <<Raise("ValueError")>>
                 ELSE <<Message(4, "literal", fraction_bin)>>)

\* set_precomputed_frequency(message_channel_select, message_frequency_word)
\* is defined without `self`: called on a controller with the two messages it
\* raises TypeError before its body runs
set_precomputed_frequency_prog == <<Raise("TypeError")>>

\* mutant of set_phase_prog: the phase is checked after the channel select
set_phase_prog_late_check(phase, chan, auto) ==
    channel_select_prog(chan)
    \o (IF ~(0 <= phase /\ phase <= 360) THEN <<Raise("AssertionError")>>
        ELSE <<Write(5, "literal", phase_fraction_bin(phase))>> \o latch_prog(auto))

\* set_phase(phase, channel)
set_phase_prog(phase, chan, auto) ==
    IF ~(0 <= phase /\ phase <= 360)
    THEN <<Raise("AssertionError")>>
    ELSE channel_select_prog(chan)
         \o <<Write(5, "literal", phase_fraction_bin(phase))>>
         \o latch_prog(auto)

\* toggle_autoclear_phase_accumulations()
toggle_autoclear_prog(auto) ==
    <<Read(3, 24, TRUE), Write(3, "cfr_toggle", <<>>)>> \o latch_prog(auto)

RECURSIVE enable_channel_modulation_prog(_, _, _, _)
\* _enable_channel_modulation(channel, modulation_type, disable): one
\* select / read / write / latch round per channel; modulation_type_bin is
\* unbound for a type other than 'frequency'
enable_channel_modulation_prog(channels, modulation_type, disable, auto) ==
    IF channels = <<>> THEN <<>>
    ELSE channel_select_prog(ChanInt(Head(channels)))
         \o <<Read(3, 24, TRUE)>>
         \o (IF disable THEN <<Write(3, "cfr_mod", <<0, 0>>)>> \o latch_prog(auto)
             ELSE IF modulation_type = "frequency"
                  THEN <<Write(3, "cfr_mod", <<1, 0>>)>> \o latch_prog(auto)
             ELSE <<Raise("UnboundLocalError")>>)
         \o enable_channel_modulation_prog(Tail(channels), modulation_type, disable, auto)

\* list.sort()
Sorted(l) == SortSeq(l, LAMBDA a, b : a < b)

\* enable_modulation: the channel groups of 4-level and 16-level modulation
configurations(level) ==
    IF level = 4 THEN << <<0, 1>>, <<0, 2>>, <<0, 3>>, <<1, 2>>, <<1, 3>>, <<2, 3>> >>
    ELSE << <<0>>, <<1>>, <<2>>, <<3>> >>

\* configurations.index(active_channels), 0-based; -1 when list.index raises
configuration_index(level, active_channels) ==
    LET c == configurations(level)
    IN  IF \E i \in 1..Len(c) : c[i] = active_channels
        THEN (CHOOSE i \in 1..Len(c) : c[i] = active_channels) - 1
        ELSE -1

\* level_bin of enable_modulation
level_bin(level) == IF level = 4 THEN <<0, 1>> ELSE IF level = 16 THEN <<1, 1>> ELSE <<0, 0>>

RECURSIVE each_channel_modulation_prog(_, _, _)
\* for ch in active_channels: self._enable_channel_modulation(channel=ch, ...)
each_channel_modulation_prog(channels, modulation_type, auto) ==
    IF channels = <<>> THEN <<>>
    ELSE enable_channel_modulation_prog(<<Head(channels)>>, modulation_type, FALSE, auto)
         \o each_channel_modulation_prog(Tail(channels), modulation_type, auto)

\* mutant of enable_modulation_prog: the channels are set up before FR1
enable_modulation_prog_channels_first(level, chan, modulation_type, auto) ==
    LET active_channels == Sorted(channels_of(chan))
        i == configuration_index(level, active_channels)
        PPC_bin == IF level = 2 THEN <<>> ELSE ZFill(PyFrom(PyBin(i), 2), 3)
    IN  <<Read(1, 24, TRUE)>>
        \o (IF level # 2 /\ level \notin {4, 16} THEN <<Raise("UnboundLocalError")>>
            ELSE IF level # 2 /\ i < 0 THEN <<Raise("ValueError")>>
            ELSE each_channel_modulation_prog(active_channels, modulation_type, auto)
                 \o <<Write(1, "fr1_level", level_bin(level) \o PPC_bin)>>
                 \o latch_prog(auto))

\* enable_modulation(level, active_channels, modulation_type)
enable_modulation_prog(level, chan, modulation_type, auto) ==
    LET active_channels == Sorted(channels_of(chan))
        i == configuration_index(level, active_channels)
        PPC_bin == IF level = 2 THEN <<>> ELSE ZFill(PyFrom(PyBin(i), 2), 3)
    IN  <<Read(1, 24, TRUE)>>
        \o (IF level # 2 /\ level \notin {4, 16} THEN <<Raise("UnboundLocalError")>>
            ELSE IF level # 2 /\ i < 0 THEN <<Raise("ValueError")>>
            ELSE <<Write(1, "fr1_level", level_bin(level) \o PPC_bin)>>
                 \o latch_prog(auto)
                 \o each_channel_modulation_prog(active_channels, modulation_type, auto))

RECURSIVE enable_channel_linear_sweep_prog(_, _, _)
\* _enable_channel_linear_sweep(channels, disable)
enable_channel_linear_sweep_prog(channels, disable, auto) ==
    IF channels = <<>> THEN <<>>
    ELSE channel_select_prog(ChanInt(Head(channels)))
         \o <<Read(3, 24, TRUE), Write(3, "cfr_ls", IF disable THEN <<0>> ELSE <<1>>)>>
         \o latch_prog(auto)
         \o enable_channel_linear_sweep_prog(Tail(channels), disable, auto)

\* one delta word of configure_linear_sweep, read back for printing
delta_word_prog(register, dw, system_clock) ==
    LET w == frequency_word_prog(register, dw, system_clock)
    IN  IF w[1].k = "raise" THEN w ELSE w \o <<Read(register, 32, FALSE)>>

\* mutant of configure_linear_sweep_prog: no early return when disable
configure_linear_sweep_prog_no_return(chan, rsrr, fsrr, rdw, fdw, disable, system_clock, auto) ==
    LET channels == Sorted(channels_of(chan))
    IN  enable_channel_linear_sweep_prog(channels, disable, auto)
        \o channel_select_prog(ChanList(channels))
        \o <<Write(7, "literal", rrw_bin(fsrr, system_clock) \o rrw_bin(rsrr, system_clock)),
             Read(7, 16, FALSE)>>
        \o delta_word_prog(9, fdw, system_clock)
        \o delta_word_prog(8, rdw, system_clock)

\* configure_linear_sweep(channels, rsrr, fsrr, rdw, fdw, disable)
configure_linear_sweep_prog(chan, rsrr, fsrr, rdw, fdw, disable, system_clock, auto) ==
    LET channels == Sorted(channels_of(chan))
    IN  enable_channel_linear_sweep_prog(channels, disable, auto)
        \o (IF disable THEN <<>>
            ELSE channel_select_prog(ChanList(channels))
                 \o <<Write(7, "literal", rrw_bin(fsrr, system_clock) \o rrw_bin(rsrr, system_clock)),
                      Read(7, 16, FALSE)>>
                 \o delta_word_prog(9, fdw, system_clock)
                 \o delta_word_prog(8, rdw, system_clock))

\* the word a write instruction sends, from the last readout
new_word(ins, readout, system_clock) ==
    CASE ins.spec = "csr" -> csr_new_bin(ins.arg, readout)
      [] ins.spec = "fr1_mult" -> fr1_new_bitstring(readout, ins.arg, system_clock)
      [] ins.spec = "cfr_toggle" -> cfr_toggled(readout)
      [] ins.spec = "cfr_mod" -> cfr_new_bin_modulation(ins.arg, readout)
      [] ins.spec = "fr1_level" -> fr_new_level(readout, PySlice(ins.arg, 0, 2), PyFrom(ins.arg, 2))
      [] ins.spec = "cfr_ls" -> cfr_new_bin_sweep(readout, ins.arg)
      [] OTHER -> ins.arg

\* ------------------------------------------------------------------ inputs
\* reference clocks (MHz) a controller is constructed with
RefClocks == {20, 300}
\* clkmtp values handed to the constructor
CtorMultipliers == {1, 3, 20}
\* factors handed to set_clock_multiplier
Factors == {0, 1, 3, 4, 20, 21}
\* frequencies (MHz) handed to set_frequency
Frequencies == {-1, 10, 20, 7000}
\* channel words handed to set_frequency
ChannelWords == {-1, 0, 1, 15, 16}
\* phases (degrees) handed to set_phase
Phases == {-1, 0, 90, 360, 361}

RECURSIVE AscendingLists(_, _)
\* the ascending lists over lo..3 of at most n elements
AscendingLists(lo, n) ==
    IF n = 0 \/ lo > 3 THEN {<<>>}
    ELSE {<<>>} \cup UNION {{<<c>> \o l : l \in AscendingLists(c + 1, n - 1)} : c \in lo..3}

\* channel arguments of set_phase: None, integers in and out of range, and
\* every subset of {0,1,2,3} as a list
PhaseChannels ==
    {ChanNone} \cup {ChanInt(n) : n \in {-1, 2, 4}} \cup {ChanList(l) : l \in AscendingLists(0, 4)}
\* channel arguments of set_frequency
FrequencyChannels == {ChanNone, ChanInt(1), ChanInt(4), ChanList(<<0, 1>>)}
\* channel arguments of the operations that loop over their channels
LoopChannels ==
    {ChanNone, ChanInt(1), ChanList(<<1, 0>>), ChanList(<<4>>), ChanList(<<0, 4>>)}
    \cup {ChanList(l) : l \in AscendingLists(0, MaxLoopChannels)}
\* <<rsrr, fsrr, rdw, fdw>> handed to configure_linear_sweep: ramp times in
\* ns, delta words in MHz; the defaults are all 0
SweepDefaults == <<0, 0, 0, 0>>
SweepParams == {SweepDefaults, <<50, 100000, 1, 2>>, <<-5, 30, 1, 7000>>, <<50, 50, -1, 1>>,
                <<-5, 30, 1, 2>>}
\* modulation levels handed to enable_modulation
Levels == {2, 4, 8, 16}

\* the calls made: each argument takes every value of its set with the others
\* at one value, except where the code relates two arguments
\* <<frequency, channel, channel_word>>
FrequencyCalls ==
    (Frequencies \X {ChanInt(1)} \X ChannelWords)
    \cup ({10} \X FrequencyChannels \X {0})
\* <<phase, channel>>
PhaseCalls == (Phases \X {ChanInt(2)}) \cup ({90} \X PhaseChannels)
\* <<level, active_channels, modulation_type>>
ModulationCalls ==
    (Levels \X LoopChannels \X {"frequency"}) \cup ({2} \X {ChanInt(1)} \X {"phase"})
\* <<channels, <<rsrr, fsrr, rdw, fdw>>, disable>>
SweepCalls ==
    (LoopChannels \X {SweepDefaults} \X BOOLEAN)
    \cup ({ChanList(<<0, 1>>)} \X SweepParams \X {FALSE})
\* <<channel, frequency>> handed to precompute_frequency_word
PrecomputeCalls ==
    ({ChanInt(1)} \X (Frequencies \cup {0}))
    \cup ({ChanNone, ChanInt(-1), ChanInt(4), ChanList(<<0, 3>>)} \X {10})
\* <<channel, disable>>
ChannelModulationCalls == {ChanNone, ChanInt(1), ChanList(<<0, 1>>)} \X BOOLEAN
\* the callers of the controller
Callers == {1, 2}
\* the callers that issue operations one after the other
Sequential == {1}

\* ------------------------------------------------------------------- state
VARIABLES
    constructed,              \* "no", "constructing", "yes", or "failed" (__init__ raised)
    ref_clock_frequency,      \* self.ref_clock_frequency (MHz)
    system_clock_frequency,   \* self.system_clock_frequency (MHz)
    auto_update,              \* self.auto_update
    channel,                  \* self.channel
    log,                      \* the transport calls since the current operation began
    prevLoad,                 \* whether the last command sent before `log` was Load I/O
    readback,                 \* whether the bridge is in readback mode
    cs                        \* per caller: the operation it is in and where

vars == <<constructed, ref_clock_frequency, system_clock_frequency, auto_update,
          channel, log, prevLoad, readback, cs>>
fields == <<ref_clock_frequency, system_clock_frequency, auto_update, channel>>

NoArgs == [factor |-> 0, frequency |-> 0, channel |-> ChanNone, channel_word |-> 0,
           phase |-> 0, level |-> 0, modulation_type |-> "", rsrr |-> 0, fsrr |-> 0,
           rdw |-> 0, fdw |-> 0, disable |-> FALSE]

\* pattern, nreads: the pattern the operation's first register read returns,
\* and the number of register reads it has made
Idle == [status |-> "idle", exc |-> "", op |-> "", args |-> NoArgs, prog |-> <<>>,
         sub |-> 0, readout |-> <<>>, retried |-> FALSE, clock_before |-> 0,
         pattern |-> 0, nreads |-> 0, result |-> <<>>]

\* one transport call as logged
Entry(c, ep, dir, data, size, ok) ==
    [c |-> c, ep |-> ep, dir |-> dir, data |-> data, size |-> size, ok |-> ok]

\* the commands that reached the bridge
Sent(l) == SelectSeq(l, LAMBDA e : e.dir = "w" /\ e.ok)
IsLoad(e) == e.ep = "ep1" /\ e.dir = "w" /\ e.data = load_message
IsUpdate(e) == e.ep = "ep1" /\ e.dir = "w" /\ e.data = update_message
IsBeginReadback(e) == e.ep = "ep1" /\ e.dir = "w" /\ Len(e.data) = 3 /\ e.data[1] = 7
IsEndReadback(e) == e.ep = "ep1" /\ e.dir = "w" /\ e.data = end_readback
IsRegisterWrite(e) == e.ep = "ep4" /\ e.dir = "w" /\ e.data[1] = 0
IsReadCommand(e) == e.ep = "ep4" /\ e.dir = "w" /\ e.data[1] = 1
IsBulkRead(e) == e.ep = "ep88" /\ e.dir = "r"
\* the register a register-write or read command addresses
RegisterOf(e) ==
    LET a == SubSeq(e.data, 2, 8)
    IN  64 * a[1] + 32 * a[2] + 16 * a[3] + 8 * a[4] + 4 * a[5] + 2 * a[6] + a[7]
\* the payload bits of a register write
PayloadOf(e) == SubSeq(e.data, 9, Len(e.data))

Init ==
    /\ constructed = "no"
    /\ ref_clock_frequency = 0
    /\ system_clock_frequency = 0
    /\ auto_update = FALSE
    /\ channel = ChanNone
    /\ log = <<>>
    /\ prevLoad = FALSE
    /\ readback = FALSE
    /\ cs = [c \in Callers |-> Idle]

\* ----------------------------------------------------------------- calling
\* whether the last command of l that reached the bridge is Load I/O
EndsWithLoad(l, before) ==
    LET sent == Sent(l) IN IF sent = <<>> THEN before ELSE IsLoad(sent[Len(sent)])

\* caller c enters operation op with program prog
Enter(c, op, args, prog) ==
    /\ constructed = "yes"
    /\ cs[c].status = "idle"
    /\ \E k \in 0..(NumPatterns - 1) :
          cs' = [cs EXCEPT ![c] = [Idle EXCEPT !.status = "running", !.op = op, !.args = args,
                                               !.prog = prog, !.pattern = k,
                                               !.clock_before = system_clock_frequency]]
    /\ UNCHANGED <<constructed, log, prevLoad, readback>>

\* AD9959(rfclk=..., clkmtp=..., auto_update=..., channel=0): lines 67-77
Construct(c) ==
    \E rfclk \in RefClocks, clkmtp \in CtorMultipliers, auto \in BOOLEAN,
       k \in 0..(NumPatterns - 1) :
        /\ constructed = "no"
        /\ cs[c].status = "idle"
        /\ constructed' = "constructing"
        /\ ref_clock_frequency' = rfclk
        /\ system_clock_frequency' = clock_after(clkmtp, rfclk, rfclk)
        /\ auto_update' = auto
        /\ channel' = ChanInt(0)
        /\ cs' = [cs EXCEPT ![c] = [Idle EXCEPT !.status = "running", !.op = "__init__",
                                                !.args = [NoArgs EXCEPT !.factor = clkmtp],
                                                !.prog = set_clock_multiplier_prog(clkmtp, auto),
                                                !.pattern = k,
                                                !.clock_before = rfclk]]
        /\ UNCHANGED <<log, prevLoad, readback>>

set_clock_multiplier(c) ==
    \E factor \in Factors :
        /\ Enter(c, "set_clock_multiplier", [NoArgs EXCEPT !.factor = factor],
                 set_clock_multiplier_prog(factor, auto_update))
        /\ system_clock_frequency' =
               clock_after(factor, ref_clock_frequency, system_clock_frequency)
        /\ UNCHANGED <<ref_clock_frequency, auto_update, channel>>

set_frequency(c) ==
    \E a \in FrequencyCalls :
        /\ Enter(c, "set_frequency",
                 [NoArgs EXCEPT !.frequency = a[1], !.channel = a[2], !.channel_word = a[3]],
                 set_frequency_prog(a[1], resolve(a[2], channel), a[3],
                                    system_clock_frequency, auto_update))
        /\ UNCHANGED fields

set_phase(c) ==
    \E a \in PhaseCalls :
        /\ Enter(c, "set_phase", [NoArgs EXCEPT !.phase = a[1], !.channel = a[2]],
                 set_phase_prog(a[1], resolve(a[2], channel), auto_update))
        /\ UNCHANGED fields

toggle_autoclear_phase_accumulations(c) ==
    /\ Enter(c, "toggle_autoclear_phase_accumulations", NoArgs,
             toggle_autoclear_prog(auto_update))
    /\ UNCHANGED fields

enable_modulation(c) ==
    \E a \in ModulationCalls :
        /\ Enter(c, "enable_modulation",
                 [NoArgs EXCEPT !.level = a[1], !.channel = a[2], !.modulation_type = a[3]],
                 enable_modulation_prog(a[1], resolve(a[2], channel), a[3], auto_update))
        /\ UNCHANGED fields

\* _enable_channel_modulation(channel, modulation_type='frequency', disable)
\* called directly
enable_channel_modulation(c) ==
    \E a \in ChannelModulationCalls :
        /\ Enter(c, "_enable_channel_modulation",
                 [NoArgs EXCEPT !.channel = a[1], !.modulation_type = "frequency",
                                !.disable = a[2]],
                 enable_channel_modulation_prog(channels_of(resolve(a[1], channel)),
                                                "frequency", a[2], auto_update))
        /\ UNCHANGED fields

configure_linear_sweep(c) ==
    \E a \in SweepCalls :
        /\ Enter(c, "configure_linear_sweep",
                 [NoArgs EXCEPT !.channel = a[1], !.rsrr = a[2][1], !.fsrr = a[2][2],
                                !.rdw = a[2][3], !.fdw = a[2][4], !.disable = a[3]],
                 configure_linear_sweep_prog(resolve(a[1], channel), a[2][1], a[2][2],
                                             a[2][3], a[2][4], a[3],
                                             system_clock_frequency, auto_update))
        /\ UNCHANGED fields

precompute_frequency_word(c) ==
    \E a \in PrecomputeCalls :
        /\ Enter(c, "precompute_frequency_word",
                 [NoArgs EXCEPT !.channel = a[1], !.frequency = a[2]],
                 precompute_frequency_word_prog(a[1], a[2], system_clock_frequency))
        /\ UNCHANGED fields

set_precomputed_frequency(c) ==
    /\ Enter(c, "set_precomputed_frequency", NoArgs, set_precomputed_frequency_prog)
    /\ UNCHANGED fields

\* --------------------------------------------------------- transport steps
Running(c) == cs[c].status = "running" /\ cs[c].prog # <<>>
Cur(c) == Head(cs[c].prog)

\* the message _write_to_dds_register builds for the pending write
PendingWord(c) == new_word(Cur(c), cs[c].readout, system_clock_frequency)
\* whether bytearray.fromhex accepts it
PendingWriteOk(c) == IsBits(PendingWord(c)) /\ IsBits(register_bin(Cur(c).reg))

\* the transport call caller c makes next, as logged; r is what a register
\* read returns
Pending(c, r, ok) ==
    LET ins == Cur(c)
        sub == cs[c].sub
    IN  CASE ins.k = "read" /\ sub = 0 -> Entry(c, "ep1", "w", begin_readback(ins.size), 0, ok)
          [] ins.k = "read" /\ sub = 1 -> Entry(c, "ep4", "w", readout_command(ins.reg), 0, ok)
          [] ins.k = "read" /\ sub = 2 -> Entry(c, "ep88", "r", r, ins.size, ok)
          [] ins.k = "read" /\ sub = 3 -> Entry(c, "ep1", "w", end_readback, 0, ok)
          [] ins.k = "write" -> Entry(c, "ep4", "w", write_message(ins.reg, PendingWord(c)), 0, ok)
          [] ins.k = "load" /\ sub = 0 -> Entry(c, "ep1", "w", load_message, 0, ok)
          [] ins.k = "update" /\ sub = 0 -> Entry(c, "ep1", "w", update_message, 0, ok)
          [] ins.k \in {"load", "update"} /\ sub = 1 -> Entry(c, "ep81", "r", <<>>, 1, ok)
          [] OTHER -> Entry(c, "dev", "reset", <<>>, 0, ok)

\* the instruction is done
Advance(c) == cs' = [cs EXCEPT ![c].prog = Tail(@), ![c].sub = 0]
\* the next transport call of the same helper
Within(c) == cs' = [cs EXCEPT ![c].sub = @ + 1]

\* the operation ends by an exception; an exception out of __init__ leaves
\* no controller
Abort(c, exc) ==
    /\ cs' = [cs EXCEPT ![c].status = "raised", ![c].exc = exc, ![c].prog = <<>>, ![c].sub = 0,
                        ![c].result = <<>>]
    /\ constructed' = IF cs[c].op = "__init__" THEN "failed" ELSE constructed

\* _read_from_register: dh.bulkWrite(self._ep1, begin_readback)
ReadBegin(c) ==
    /\ Running(c) /\ Cur(c).k = "read" /\ cs[c].sub = 0
    /\ log' = Append(log, Pending(c, <<>>, TRUE))
    /\ readback' = TRUE
    /\ Within(c)
    /\ UNCHANGED <<constructed, fields, prevLoad>>

\* _read_from_register: dh.bulkWrite(self._ep4, readout_command)
ReadCommand(c) ==
    /\ Running(c) /\ Cur(c).k = "read" /\ cs[c].sub = 1
    /\ log' = Append(log, Pending(c, <<>>, TRUE))
    /\ Within(c)
    /\ UNCHANGED <<constructed, fields, prevLoad, readback>>

\* _read_from_register: readout = dh.bulkRead(self._ep88, size=size); the
\* bytes of a readout that is only printed are not tracked
ReadBulk(c) ==
    /\ Running(c) /\ Cur(c).k = "read" /\ cs[c].sub = 2
    /\ LET r == IF Cur(c).keep THEN Readout(cs[c].pattern, cs[c].nreads, Cur(c).size)
                ELSE <<>>
       IN  /\ log' = Append(log, Pending(c, r, TRUE))
           /\ cs' = [cs EXCEPT ![c].sub = 3, ![c].nreads = @ + 1,
                               ![c].readout = IF Cur(c).keep THEN r ELSE @]
    /\ UNCHANGED <<constructed, fields, prevLoad, readback>>

\* mutant of ReadEnd: the readout is returned without end-readback being sent
ReadEnd_not_sent(c) ==
    /\ Running(c) /\ Cur(c).k = "read" /\ cs[c].sub = 3
    /\ Advance(c)
    /\ UNCHANGED <<constructed, fields, log, prevLoad, readback>>

\* _read_from_register: dh.bulkWrite(self._ep1, end_readback); return readout
ReadEnd(c) ==
    /\ Running(c) /\ Cur(c).k = "read" /\ cs[c].sub = 3
    /\ log' = Append(log, Pending(c, <<>>, TRUE))
    /\ readback' = FALSE
    /\ Advance(c)
    /\ UNCHANGED <<constructed, fields, prevLoad>>

\* _write_to_dds_register: bytearray.fromhex(message) raises ValueError for a
\* character that is no hex digit; otherwise dh.bulkWrite(self._ep4, message)
WriteRegister(c) ==
    /\ Running(c) /\ Cur(c).k = "write"
    /\ IF PendingWriteOk(c)
       THEN /\ log' = Append(log, Pending(c, <<>>, TRUE))
            /\ Advance(c)
            /\ UNCHANGED constructed
       ELSE /\ Abort(c, "ValueError")
            /\ UNCHANGED log
    /\ UNCHANGED <<fields, prevLoad, readback>>

\* _load_IO / _update_IO: dh.bulkWrite(self._ep1, message)
LatchWrite(c) ==
    /\ Running(c) /\ Cur(c).k \in {"load", "update"} /\ cs[c].sub = 0
    /\ log' = Append(log, Pending(c, <<>>, TRUE))
    /\ Within(c)
    /\ UNCHANGED <<constructed, fields, prevLoad, readback>>

\* _load_IO / _update_IO: readout = dh.bulkRead(self._ep81, 1)
LatchRead(c) ==
    /\ Running(c) /\ Cur(c).k \in {"load", "update"} /\ cs[c].sub = 1
    /\ log' = Append(log, Pending(c, <<>>, TRUE))
    /\ Advance(c)
    /\ UNCHANGED <<constructed, fields, prevLoad, readback>>

\* _reset_usb_handler: self.dev.reset()
ResetUsbHandler(c) ==
    /\ Running(c) /\ Cur(c).k = "reset"
    /\ log' = Append(log, Pending(c, <<>>, TRUE))
    /\ Advance(c)
    /\ UNCHANGED <<constructed, fields, prevLoad, readback>>

\* an exception raised between transport calls (assert, IndexError, ...)
PyRaise(c) ==
    /\ Running(c) /\ Cur(c).k = "raise"
    /\ Abort(c, Cur(c).exc)
    /\ UNCHANGED <<fields, log, prevLoad, readback>>

\* precompute_frequency_word: message = bytearray.fromhex(...), kept for the
\* return value
BuildMessage(c) ==
    /\ Running(c) /\ Cur(c).k = "message"
    /\ cs' = [cs EXCEPT ![c].prog = Tail(@), ![c].sub = 0,
                        ![c].result = Append(@, precompute_message(Cur(c).reg,
                                                   message_word(Cur(c), cs[c].readout)))]
    /\ UNCHANGED <<constructed, fields, log, prevLoad, readback>>

\* whether a transport call is pending
TransportPending(c) ==
    /\ Running(c)
    /\ Cur(c).k \in {"read", "write", "load", "update", "reset"}
    /\ Cur(c).k = "write" => PendingWriteOk(c)

\* mutant of USBError: __init__ resets and retries after every transport error
USBError_retry_always(c) ==
    /\ TransportPending(c)
    /\ log' = Append(log, Pending(c, <<>>, FALSE))
    /\ IF cs[c].op = "__init__"
       THEN /\ cs' = [cs EXCEPT ![c].retried = TRUE, ![c].sub = 0, ![c].readout = <<>>,
                                ![c].nreads = 0,
                                ![c].prog = <<ResetDev>>
                                    \o set_clock_multiplier_prog(cs[c].args.factor, auto_update)]
            /\ UNCHANGED constructed
       ELSE Abort(c, "USBError")
    /\ UNCHANGED <<fields, prevLoad, readback>>

\* the pending transport call raises usb.USBError.  __init__ catches the
\* first one raised by set_clock_multiplier (lines 76-80): reset, then
\* set_clock_multiplier again, which assigns system_clock_frequency the value
\* it already has.  Everywhere else it ends the operation.
USBError(c) ==
    /\ TransportPending(c)
    /\ log' = Append(log, Pending(c, <<>>, FALSE))
    /\ IF cs[c].op = "__init__" /\ ~cs[c].retried
       THEN /\ cs' = [cs EXCEPT ![c].retried = TRUE, ![c].sub = 0, ![c].readout = <<>>,
                                ![c].nreads = 0,
                                ![c].prog = <<ResetDev>>
                                    \o set_clock_multiplier_prog(cs[c].args.factor, auto_update)]
            /\ UNCHANGED constructed
       ELSE Abort(c, "USBError")
    /\ UNCHANGED <<fields, prevLoad, readback>>

\* the operation returns
Return(c) ==
    /\ cs[c].status = "running" /\ cs[c].prog = <<>>
    /\ cs' = [cs EXCEPT ![c].status = "returned"]
    /\ constructed' = IF cs[c].op = "__init__" THEN "yes" ELSE constructed
    /\ UNCHANGED <<fields, log, prevLoad, readback>>

\* the caller goes on to its next statement; the log restarts when no other
\* operation is in flight
Continue(c) ==
    /\ cs[c].status \in {"returned", "raised"}
    /\ cs' = [cs EXCEPT ![c] = Idle]
    /\ IF \A d \in Callers \ {c} : cs[d].status # "running"
       THEN log' = <<>> /\ prevLoad' = EndsWithLoad(log, prevLoad)
       ELSE UNCHANGED <<log, prevLoad>>
    /\ UNCHANGED <<constructed, fields, readback>>

Step(c) ==
    \/ ReadBegin(c) \/ ReadCommand(c) \/ ReadBulk(c) \/ ReadEnd(c)
    \/ WriteRegister(c) \/ LatchWrite(c) \/ LatchRead(c)
    \/ BuildMessage(c)
    \/ ResetUsbHandler(c) \/ PyRaise(c) \/ USBError(c) \/ Return(c) \/ Continue(c)

Operation(c) ==
    \/ Construct(c)
    \/ set_clock_multiplier(c) \/ set_frequency(c) \/ set_phase(c)
    \/ toggle_autoclear_phase_accumulations(c)
    \/ enable_modulation(c) \/ enable_channel_modulation(c) \/ configure_linear_sweep(c)
    \/ precompute_frequency_word(c) \/ set_precomputed_frequency(c)

Next == \E c \in Sequential : Operation(c) \/ Step(c)

Spec == Init /\ [][Next]_vars

\* ------------------------------------------------------ concurrent callers
\* Two callers (threads sharing the controller, or two processes with a
\* handle each) call methods of a constructed controller at the same time.
\* No method takes a lock: each dh.bulkWrite / dh.bulkRead is one step, and
\* the steps of the two calls interleave freely.

\* the controller AD9959(rfclk=20e6, clkmtp=1, auto_update=False) as its
\* constructor leaves it
InitConstructed ==
    /\ constructed = "yes"
    /\ ref_clock_frequency = 20
    /\ system_clock_frequency = 20
    /\ auto_update = FALSE
    /\ channel = ChanInt(0)
    /\ log = <<>>
    /\ prevLoad = TRUE
    /\ readback = FALSE
    /\ cs = [c \in Callers |-> Idle]

\* set_phase(90, channel=c): each caller drives a channel of its own
set_phase_own_channel(c) ==
    /\ Enter(c, "set_phase", [NoArgs EXCEPT !.phase = 90, !.channel = ChanInt(c)],
             set_phase_prog(90, ChanInt(c), auto_update))
    /\ UNCHANGED fields

NextConcurrent ==
    \E c \in Callers :
        \/ set_phase_own_channel(c) \/ toggle_autoclear_phase_accumulations(c)
        \/ ReadBegin(c) \/ ReadCommand(c) \/ ReadBulk(c) \/ ReadEnd(c)
        \/ WriteRegister(c) \/ LatchWrite(c) \/ LatchRead(c) \/ Return(c)

SpecConcurrent == InitConstructed /\ [][NextConcurrent]_vars

\* ================================================================== claims
\* positions of the log
Pos == 1..Len(log)
\* caller c issued the i-th transport call
By(c, i) == log[i].c = c
\* caller c made no transport call
NoTransport(c) == \A i \in Pos : ~By(c, i)
\* the i-th call is a register write to one of `regs`
WritesTo(i, regs) == IsRegisterWrite(log[i]) /\ RegisterOf(log[i]) \in regs
Finished(c) == cs[c].status \in {"returned", "raised"}
Returned(c) == cs[c].status = "returned"
Raised(c) == cs[c].status = "raised"
\* the channel argument the operation of c works on
ArgChannels(c) == channels_of(resolve(cs[c].args.channel, channel))
ArgChannelSet(c) == {ArgChannels(c)[j] : j \in 1..Len(ArgChannels(c))}

MutatingOps == {"set_frequency", "set_phase", "set_clock_multiplier",
                "toggle_autoclear_phase_accumulations", "enable_modulation",
                "configure_linear_sweep"}
\* 0x03, 0x04, 0x05, 0x07, 0x08, 0x09 and the channel-word registers
PerChannelRegisters == {3, 4, 5, 7, 8, 9} \cup 10..25

\* C1: every mutating public operation that returns normally has issued a
\* Load I/O after the last register write it made.
C1_LoadAfterLastWrite ==
    \A c \in Callers :
        (Returned(c) /\ cs[c].op \in MutatingOps) =>
            \A i \in Pos :
                (By(c, i) /\ IsRegisterWrite(log[i])) =>
                    \E j \in Pos : j > i /\ By(c, j) /\ IsLoad(log[j]) /\ log[j].ok

\* C2: in every operation, a write to a per-channel register is preceded, in
\* the same operation, by a write to the channel-select register 0x00; and
\* set_clock_multiplier writes no channel-select register.
C2_SelectBeforeChannelWrite ==
    \A c \in Callers :
        /\ \A i \in Pos :
              (By(c, i) /\ WritesTo(i, PerChannelRegisters)) =>
                  \E j \in Pos : j < i /\ By(c, j) /\ WritesTo(j, {0})
        /\ cs[c].op = "set_clock_multiplier" =>
              \A i \in Pos : ~(By(c, i) /\ WritesTo(i, {0}))

\* the commands that reached the bridge since the log began
SentLog == Sent(log)

LoadCompleted(i) ==
    /\ IsLoad(log[i]) /\ log[i].ok
    /\ i + 1 <= Len(log) /\ log[i + 1].ep = "ep81" /\ log[i + 1].ok

MaskChannel0Last(S) == [i \in 1..4 |-> IF (4 - i) \in S THEN 1 ELSE 0]
\* the i-th call is the channel-select write of a set_phase or set_frequency
\* call whose channels are a subset of {0,1,2,3}
SelectWrite(c, i) ==
    /\ cs[c].op \in {"set_phase", "set_frequency"}
    /\ ArgChannelSet(c) \subseteq 0..3
    /\ By(c, i) /\ WritesTo(i, {0})
\* the four mask bits of a channel-select write
MaskOf(e) == SubSeq(PayloadOf(e), 1, 4)

\* C4 as claimed: the mask written for channels {0} is 1000, for {0,1} 1100,
\* for {3} 0001, and it has exactly 4 bits for every subset of {0,1,2,3}.
C4_MaskChannel0MostSignificant ==
    \A c \in Callers : \A i \in Pos :
        SelectWrite(c, i) =>
            /\ Len(PayloadOf(log[i])) = 8
            /\ ArgChannelSet(c) = {0} => MaskOf(log[i]) = <<1, 0, 0, 0>>
            /\ ArgChannelSet(c) = {0, 1} => MaskOf(log[i]) = <<1, 1, 0, 0>>
            /\ ArgChannelSet(c) = {3} => MaskOf(log[i]) = <<0, 0, 0, 1>>

\* C4, amended: the mask written for channels {0} is 0001, for {0,1} 0011,
\* for {3} 1000: channel ch is the bit of weight 2**ch of the four mask bits
\* (channel 0 the least significant, written last); the mask has exactly 4
\* bits for every subset of {0,1,2,3} and is followed by the 4 bits read.
C4_MaskChannel0LeastSignificant ==
    \A c \in Callers : \A i \in Pos :
        SelectWrite(c, i) =>
            /\ Len(PayloadOf(log[i])) = 8
            /\ MaskOf(log[i]) = MaskChannel0Last(ArgChannelSet(c))
            /\ ArgChannelSet(c) = {0} => MaskOf(log[i]) = <<0, 0, 0, 1>>
            /\ ArgChannelSet(c) = {0, 1} => MaskOf(log[i]) = <<0, 0, 1, 1>>
            /\ ArgChannelSet(c) = {3} => MaskOf(log[i]) = <<1, 0, 0, 0>>

\* C4 witness: set_phase on channels [0, 1] has written the channel-select
\* register.
C4_Witness ==
    \E c \in Callers : \E i \in Pos :
        /\ SelectWrite(c, i) /\ log[i].ok
        /\ cs[c].op = "set_phase" /\ ArgChannelSet(c) = {0, 1}

\* C5: set_phase with a phase outside [0, 360] fails and issues no transport
\* call at all.
C5_PhaseRejectedBeforeTransport ==
    \A c \in Callers :
        (cs[c].op = "set_phase" /\ ~(0 <= cs[c].args.phase /\ cs[c].args.phase <= 360)) =>
            /\ ~Returned(c)
            /\ NoTransport(c)
            /\ Raised(c) => cs[c].exc = "AssertionError"

\* C5 witness: set_phase(361) has failed.
C5_Witness ==
    \E c \in Callers : cs[c].op = "set_phase" /\ cs[c].args.phase = 361 /\ Raised(c)

\* C6: set_frequency with a frequency below 0 or above the system clock
\* frequency, or with a channel_word outside 0..15, fails and issues no
\* transport call at all.
C6_FrequencyRejectedBeforeTransport ==
    \A c \in Callers :
        (/\ cs[c].op = "set_frequency"
         /\ \/ cs[c].args.frequency < 0
            \/ cs[c].args.frequency > system_clock_frequency
            \/ cs[c].args.channel_word \notin 0..15) =>
            /\ ~Returned(c)
            /\ NoTransport(c)

\* C7: enable_modulation with level 4 or 16 and a set of active channels that
\* is not in the configuration table of that level fails and issues no
\* transport call at all.
C7_ConfigurationRejectedBeforeTransport ==
    \A c \in Callers :
        (/\ cs[c].op = "enable_modulation"
         /\ cs[c].args.level \in {4, 16}
         /\ configuration_index(cs[c].args.level, Sorted(ArgChannels(c))) < 0) =>
            /\ ~Returned(c)
            /\ NoTransport(c)

\* C8: a set_clock_multiplier call that fails leaves system_clock_frequency
\* at the value it had before the call.
C8_ClockUnchangedOnFailure ==
    \A c \in Callers :
        (cs[c].op = "set_clock_multiplier" /\ Raised(c)) =>
            system_clock_frequency = cs[c].clock_before

\* the 1-based string positions a read-modify-write of operation op on
\* register reg is to replace: 0x00 the channel mask (string indices 0-3);
\* 0x01 in set_clock_multiplier the VCO gain bit 0 and the factor bits 1-5;
\* 0x01 in enable_modulation the level bits 14-15 and, for the levels 4 and
\* 16, the PPC bits 9-11; 0x03 the modulation type (string indices 0-1, the
\* register's [23:22]), the linear sweep enable bit 9, the autoclear bit 21.
FieldOf(op, reg, level) ==
    CASE reg = 0 -> 1..4
      [] reg = 1 /\ op \in {"set_clock_multiplier", "__init__"} -> 1..6
      [] reg = 1 /\ op = "enable_modulation" ->
            IF level \in {4, 16} THEN {15, 16} \cup 10..12 ELSE {15, 16}
      [] reg = 3 /\ op \in {"enable_modulation", "_enable_channel_modulation"} -> 1..2
      [] reg = 3 /\ op = "configure_linear_sweep" -> {10}
      [] reg = 3 /\ op = "toggle_autoclear_phase_accumulations" -> {22}
      [] OTHER -> {}
\* the i-th call is a register write of a read-modify-write
IsRMW(c, i) ==
    /\ By(c, i) /\ IsRegisterWrite(log[i])
    /\ FieldOf(cs[c].op, RegisterOf(log[i]), cs[c].args.level) # {}
\* the position of the last register content read before the i-th call
LastReadBefore(c, i) ==
    LET reads == {j \in 1..(i - 1) : By(c, j) /\ IsBulkRead(log[j]) /\ log[j].ok
                                     /\ log[j].data # <<>>}
    IN  IF reads = {} THEN 0 ELSE CHOOSE j \in reads : \A k \in reads : k <= j
\* the register the read at position j was commanded for
CommandedRegister(j) == RegisterOf(log[j - 1])

\* C9: every read-modify-write writes a value as long as the value just read
\* from the same register and equal to it at every position outside the field
\* the operation changes.
C9_FramePreserved ==
    \A c \in Callers : \A i \in Pos :
        IsRMW(c, i) =>
            LET j == LastReadBefore(c, i)
                new == PayloadOf(log[i])
            IN  /\ j > 1
                /\ CommandedRegister(j) = RegisterOf(log[i])
                /\ Len(new) = Len(log[j].data)
                /\ \A p \in 1..Len(new) :
                      p \notin FieldOf(cs[c].op, RegisterOf(log[i]), cs[c].args.level) =>
                          new[p] = log[j].data[p]

\* C9 witness: enable_modulation with level 4 has written FR1 over a register
\* content that holds ones and zeros outside the field.
C9_Witness ==
    \E c \in Callers : \E i \in Pos :
        /\ IsRMW(c, i) /\ log[i].ok
        /\ cs[c].op = "enable_modulation" /\ cs[c].args.level = 4
        /\ RegisterOf(log[i]) = 1
        /\ \E p, q \in 17..24 : PayloadOf(log[i])[p] = 1 /\ PayloadOf(log[i])[q] = 0

\* the 5-bit binary of n, most significant bit first
Bin5(n) == [i \in 1..5 |-> (n \div 2 ^ (5 - i)) % 2]
\* the position of the last write of register FR1 by c, 0 if none
LastFR1Write(c) ==
    LET ws == {i \in Pos : By(c, i) /\ WritesTo(i, {1}) /\ log[i].ok}
    IN  IF ws = {} THEN 0 ELSE CHOOSE i \in ws : \A k \in ws : k <= i
\* set_clock_multiplier (called directly or by the constructor) has completed
\* with reference clock times factor above 255 MHz
CompletedAboveThreshold(c) ==
    /\ Returned(c) /\ cs[c].op \in {"set_clock_multiplier", "__init__"}
    /\ ref_clock_frequency * cs[c].args.factor > VcoGainThreshold
\* reference clock 20 MHz and factor 20 give 400 MHz and the VCO gain bit 1
Example20Times20(c) ==
    (/\ Returned(c) /\ cs[c].op \in {"set_clock_multiplier", "__init__"}
     /\ ref_clock_frequency = 20 /\ cs[c].args.factor = 20) =>
        /\ system_clock_frequency = 400
        /\ PayloadOf(log[LastFR1Write(c)])[1] = 1

\* C10 as claimed: whenever set_clock_multiplier completes with reference
\* clock times factor above 255 MHz, the FR1 value written has bit 0 equal to
\* 1 and bits 1-5 equal to the 5-bit binary of the factor.
C10_FactorBitsAlwaysBinary ==
    \A c \in Callers :
        /\ CompletedAboveThreshold(c) =>
              /\ LastFR1Write(c) > 0
              /\ PayloadOf(log[LastFR1Write(c)])[1] = 1
              /\ SubSeq(PayloadOf(log[LastFR1Write(c)]), 2, 6) = Bin5(cs[c].args.factor)
        /\ Example20Times20(c)

\* C10, amended: whenever set_clock_multiplier completes with reference clock
\* times factor above 255 MHz, the FR1 value written has bit 0 equal to 1 and
\* bits 1-5 equal to the 5-bit binary of the factor for a factor in 4..20 and
\* to 00000 for factor 1; reference clock 20 MHz and factor 20 give a system
\* clock of 400 MHz and the bit 1.
C10_VcoGainForced ==
    \A c \in Callers :
        /\ CompletedAboveThreshold(c) =>
              /\ LastFR1Write(c) > 0
              /\ PayloadOf(log[LastFR1Write(c)])[1] = 1
              /\ SubSeq(PayloadOf(log[LastFR1Write(c)]), 2, 6) =
                    IF cs[c].args.factor = 1 THEN Bin5(0) ELSE Bin5(cs[c].args.factor)
        /\ Example20Times20(c)

\* C10 witness: set_clock_multiplier(20) has completed on a 20 MHz reference
\* over an FR1 whose VCO gain bit read 0.
C10_Witness ==
    \E c \in Callers :
        /\ CompletedAboveThreshold(c) /\ cs[c].op = "set_clock_multiplier"
        /\ ref_clock_frequency = 20 /\ cs[c].args.factor = 20
        /\ system_clock_frequency = 400
        /\ log[LastReadBefore(c, LastFR1Write(c))].data[1] = 0

\* the multipliers set_clock_multiplier accepts
Multipliers == {1} \cup 4..20
\* the controller object exists (its fields are assigned)
Exists == constructed \in {"constructing", "yes"}
\* the step is the entry of a caller into operation op
Enters(c, ops) == cs[c].status = "idle" /\ cs'[c].status = "running" /\ cs'[c].op \in ops

\* C11: in every reachable state of a controller, after any sequence of
\* successful and rejected set_clock_multiplier calls, system_clock_frequency
\* is ref_clock_frequency * m for some m in {1} or 4..20; and only a step of
\* the constructor or of set_clock_multiplier changes system_clock_frequency.
C11_SystemClockIsMultiple ==
    /\ [](Exists => \E m \in Multipliers :
                        system_clock_frequency = ref_clock_frequency * m)
    /\ [][system_clock_frequency' # system_clock_frequency =>
              \E c \in Callers : Enters(c, {"__init__", "set_clock_multiplier"})]_vars

\* C11 witness: a set_clock_multiplier call has been rejected after an earlier
\* one had multiplied the clock by 20.
C11_Witness ==
    \E c \in Callers :
        /\ cs[c].op = "set_clock_multiplier" /\ cs[c].args.factor = 21
        /\ Raised(c) /\ cs[c].exc = "AssertionError"
        /\ system_clock_frequency = ref_clock_frequency * 20

\* the positions of the register writes of caller c to one of `regs`
WritesOf(c, regs) == {i \in Pos : By(c, i) /\ WritesTo(i, regs)}

\* C12: configure_linear_sweep with disable true writes only the channel-select
\* register 0x00 and the per-channel control register 0x03, the latter with
\* the linear-sweep-enable bit 9 cleared and once for each listed channel, and
\* returns: it writes neither the ramp-rate register 0x07 nor the delta-word
\* registers 0x08 and 0x09.
C12_DisableWritesControlOnly ==
    \A c \in Callers :
        (cs[c].op = "configure_linear_sweep" /\ cs[c].args.disable) =>
            /\ \A i \in Pos : (By(c, i) /\ IsRegisterWrite(log[i])) =>
                  /\ RegisterOf(log[i]) \in {0, 3}
                  /\ RegisterOf(log[i]) = 3 => PayloadOf(log[i])[10] = 0
            /\ WritesOf(c, {7, 8, 9}) = {}
            /\ Returned(c) => Cardinality(WritesOf(c, {3})) = Len(ArgChannels(c))

\* C12 witness: configure_linear_sweep(channels=[0, 1], disable=True) has
\* returned after clearing a linear-sweep-enable bit that read 1.
C12_Witness ==
    \E c \in Callers :
        /\ cs[c].op = "configure_linear_sweep" /\ cs[c].args.disable /\ Returned(c)
        /\ ArgChannels(c) = <<0, 1>>
        /\ Cardinality(WritesOf(c, {3})) = 2
        /\ \E i \in WritesOf(c, {3}) : log[LastReadBefore(c, i)].data[10] = 1

\* C13: channel selection with any channel index outside {0,1,2,3}, negative
\* indices included, fails, and no channel-select register write is issued
\* for it.
C13_InvalidChannelRejected ==
    \A c \in Callers :
        (/\ cs[c].op \in {"set_phase", "set_frequency"}
         /\ 0 <= cs[c].args.phase /\ cs[c].args.phase <= 360
         /\ ~(ArgChannelSet(c) \subseteq 0..3)) =>
            /\ ~Returned(c)
            /\ WritesOf(c, {0}) = {}

\* the i-th call is a command that reached the bridge
IsSent(i) == log[i].dir = "w" /\ log[i].ok
\* caller c has a three-phase sequence open at position k: it wrote the
\* channel-select register at some i < k and has sent no Load I/O since
InSequence(c, k) ==
    \E i \in 1..(k - 1) :
        /\ By(c, i) /\ WritesTo(i, {0}) /\ log[i].ok
        /\ \A j \in (i + 1)..(k - 1) : ~(By(c, j) /\ IsLoad(log[j]))
\* caller c has a register read open at position k: it sent begin-readback
\* at some i < k and no end-readback since
InReadback(c, k) ==
    \E i \in 1..(k - 1) :
        /\ By(c, i) /\ IsBeginReadback(log[i]) /\ log[i].ok
        /\ \A j \in (i + 1)..(k - 1) : ~(By(c, j) /\ IsEndReadback(log[j]))

\* C14: with two callers on the same device, no command of one caller is sent
\* between another caller's channel-select write and that caller's dependent
\* register write and latch.
C14_ThreePhaseNotInterleaved ==
    \A c \in Callers : \A k \in Pos :
        (InSequence(c, k) /\ IsSent(k)) => By(c, k)

\* C15: with two callers on the same device, between one caller's
\* begin-readback and its end-readback no command of another caller is sent
\* to the bridge.
C15_ReadbackNotInterleaved ==
    \A c \in Callers : \A k \in Pos :
        (InReadback(c, k) /\ IsSent(k)) => By(c, k)

\* the 8-bit binary of n, most significant bit first
Bin8(n) == [i \in 1..8 |-> (n \div 2 ^ (8 - i)) % 2]
\* round(rate / (4 / system_clock_frequency)) - 1 clamped to [0, 255]; rate
\* in ns and the clock in MHz
RampByte(rate) ==
    Bin8(Max(0, Min(255, RoundDiv(rate * system_clock_frequency, 4000) - 1)))
\* the call of c has channels and delta words that are no reason to fail
SweepOtherwiseValid(c) ==
    /\ ArgChannelSet(c) \subseteq 0..3
    /\ cs[c].args.rdw \in 0..system_clock_frequency
    /\ cs[c].args.fdw \in 0..system_clock_frequency

\* C16: in configure_linear_sweep with disable false the 16 bits written to
\* register 0x07 are the falling ramp-rate byte followed by the rising one,
\* each round(rate / (4/system_clock_frequency)) - 1 clamped to [0, 255], for
\* every rate, zero, negative and above-maximum rates included; and no rate
\* makes the call fail.
C16_RampRateClamped ==
    \A c \in Callers :
        (cs[c].op = "configure_linear_sweep" /\ ~cs[c].args.disable) =>
            /\ \A i \in WritesOf(c, {7}) :
                  PayloadOf(log[i]) = RampByte(cs[c].args.fsrr) \o RampByte(cs[c].args.rsrr)
            /\ (SweepOtherwiseValid(c) /\ Raised(c)) => cs[c].exc = "USBError"
            /\ (SweepOtherwiseValid(c) /\ Returned(c)) => WritesOf(c, {7}) # {}

\* C16 witness: on a 400 MHz system clock configure_linear_sweep has returned
\* after writing 0x07 for a negative rising rate (byte 0) and a falling rate
\* of three steps (byte 2).
C16_Witness ==
    \E c \in Callers :
        /\ cs[c].op = "configure_linear_sweep" /\ ~cs[c].args.disable /\ Returned(c)
        /\ SweepOtherwiseValid(c)
        /\ cs[c].args.rsrr = -5 /\ cs[c].args.fsrr = 30
        /\ \E i \in WritesOf(c, {7}) : PayloadOf(log[i]) = Bin8(2) \o Bin8(0)

\* the transport calls that raised usb.USBError, the device resets attempted,
\* and the starts of set_clock_multiplier's register read
Failures == {i \in Pos : ~log[i].ok}
Resets == {i \in Pos : log[i].ep = "dev"}
ReadStarts(from) == {i \in Pos : i > from /\ log[i].ep = "ep1" /\ log[i].dir = "w"
                                  /\ Len(log[i].data) = 3 /\ log[i].data[1] = 7}
\* no operation other than the constructor resets the device or goes on
\* after a transport error
NoRetryAfterConstruction(c) ==
    (cs[c].op \notin {"", "__init__"}) =>
        /\ Resets = {}
        /\ \A i \in Failures : i = Len(log) /\ Raised(c) /\ cs[c].exc = "USBError"

Bin16(n) == [i \in 1..16 |-> (n \div 2 ^ (16 - i)) % 2]
\* the positions of the writes of register 0x05 by a set_phase call with a
\* phase in [0, 360]
PhaseWrites(c) ==
    IF cs[c].op = "set_phase" /\ 0 <= cs[c].args.phase /\ cs[c].args.phase <= 360
    THEN WritesOf(c, {5}) ELSE {}

\* C18 as claimed: for every phase in [0, 360] set_phase writes to register
\* 0x05 the 16-bit word of value round(phase/360 * (2^16 - 1)); phase 360
\* encodes as sixteen ones.
C18_PhaseFullScale16 ==
    \A c \in Callers : \A i \in PhaseWrites(c) :
        /\ PayloadOf(log[i]) = Bin16(RoundDiv(cs[c].args.phase * (2 ^ 16 - 1), 360))
        /\ cs[c].args.phase = 360 => PayloadOf(log[i]) = [j \in 1..16 |-> 1]

\* C18, amended: for every phase in [0, 360] set_phase writes to register
\* 0x05 the 16-bit word of value round(phase/360 * 2^14); phase 360 encodes
\* as 0100000000000000.
C18_PhaseScale14 ==
    \A c \in Callers : \A i \in PhaseWrites(c) :
        /\ PayloadOf(log[i]) = Bin16(RoundDiv(cs[c].args.phase * 2 ^ 14, 360))
        /\ cs[c].args.phase = 360 =>
              PayloadOf(log[i]) = <<0, 1, 0, 0, 0, 0, 0, 0, 0, 0, 0, 0, 0, 0, 0, 0>>

\* C18 witness: set_phase(360) has written register 0x05 and returned.
C18_Witness ==
    \E c \in Callers :
        /\ cs[c].args.phase = 360 /\ Returned(c)
        /\ PhaseWrites(c) # {}

\* the positions of the writes of register 0x03 that set the modulation type
ModulationWrites(c) ==
    IF cs[c].op \in {"enable_modulation", "_enable_channel_modulation"}
    THEN WritesOf(c, {3}) ELSE {}
\* the modulation type written: 10 for frequency modulation, 00 to disable
TypeBits(c) == IF cs[c].args.disable THEN <<0, 0>> ELSE <<1, 0>>
\* the value written at position i equals the value last read at every
\* string index in `kept` (index 0 is the first bit sent)
KeepsAsRead(c, i, kept) ==
    LET j == LastReadBefore(c, i)
    IN  /\ j > 1 /\ CommandedRegister(j) = 3
        /\ Len(PayloadOf(log[i])) = 24 /\ Len(log[j].data) = 24
        /\ \A n \in kept : PayloadOf(log[i])[n + 1] = log[j].data[n + 1]

\* C19 as claimed: enabling or disabling modulation on a channel replaces only
\* bits 22-23 of the 24-bit register 0x03, in the numbering in which
\* linear-sweep enable is bit 9 and autoclear is bit 21, and writes the other
\* 22 bits as read.
C19_TypeAtIndices22And23 ==
    \A c \in Callers : \A i \in ModulationWrites(c) :
        /\ KeepsAsRead(c, i, 0..21)
        /\ SubSeq(PayloadOf(log[i]), 23, 24) = TypeBits(c)

\* C19, amended: enabling or disabling modulation on a channel replaces only
\* string indices 0-1 of the 24-bit register 0x03 (the first two bits sent,
\* the register's [23:22]), in the numbering in which linear-sweep enable is
\* index 9 and autoclear is index 21, and writes the other 22 bits as read.
C19_TypeAtIndices0And1 ==
    \A c \in Callers :
        /\ \A i \in ModulationWrites(c) :
              /\ KeepsAsRead(c, i, 2..23)
              /\ SubSeq(PayloadOf(log[i]), 1, 2) = TypeBits(c)
        /\ cs[c].op = "configure_linear_sweep" =>
              \A i \in WritesOf(c, {3}) : KeepsAsRead(c, i, 0..23 \ {9})
        /\ cs[c].op = "toggle_autoclear_phase_accumulations" =>
              \A i \in WritesOf(c, {3}) : KeepsAsRead(c, i, 0..23 \ {21})

\* C19 witness: modulation has been disabled on a channel whose register 0x03
\* read all ones.
C19_Witness ==
    \E c \in Callers : \E i \in ModulationWrites(c) :
        /\ cs[c].args.disable /\ log[i].ok
        /\ log[LastReadBefore(c, i)].data = [n \in 1..24 |-> 1]

\* what a logged call is, for the order of an operation: a register write
\* "w", a read command "r", Load I/O "load", Update I/O "update"; the framing
\* of a register read and the status reads are "-"
KindOf(e) ==
    IF IsLoad(e) THEN <<"load", 0>>
    ELSE IF IsUpdate(e) THEN <<"update", 0>>
    ELSE IF IsRegisterWrite(e) THEN <<"w", RegisterOf(e)>>
    ELSE IF IsReadCommand(e) THEN <<"r", RegisterOf(e)>>
    ELSE <<"-", 0>>
\* the order of the calls of c, framing left out
OrderOf(c) ==
    LET mine == SelectSeq(log, LAMBDA e : e.c = c /\ KindOf(e)[1] # "-")
    IN  [n \in 1..Len(mine) |-> KindOf(mine[n])]
\* Load I/O, and Update I/O when auto_update
LatchOrder == IF auto_update THEN <<(<<"load", 0>>), (<<"update", 0>>)>> ELSE <<(<<"load", 0>>)>>
\* function register 1 read, written and latched
LevelOrder == <<(<<"r", 1>>), (<<"w", 1>>)>> \o LatchOrder
\* one channel: select (read and write of 0x00), read of 0x03, write of 0x03,
\* latch
ChannelOrder == <<(<<"r", 0>>), (<<"w", 0>>), (<<"r", 3>>), (<<"w", 3>>)>> \o LatchOrder
\* the order claimed for n active channels
ModulationOrder(n) ==
    [k \in 1..(Len(LevelOrder) + n * Len(ChannelOrder)) |->
        IF k <= Len(LevelOrder) THEN LevelOrder[k]
        ELSE ChannelOrder[((k - Len(LevelOrder) - 1) % Len(ChannelOrder)) + 1]]
\* the channel-select writes of c, in order
SelectsOf(c) == SelectSeq(log, LAMBDA e : e.c = c /\ IsRegisterWrite(e) /\ RegisterOf(e) = 0)

\* C20: in a successful enable_modulation call the write of function register
\* 0x01 and its latch come first, and then for each active channel in turn
\* (in ascending order) the sequence channel-select write, read of 0x03,
\* write of 0x03, Load I/O (and Update I/O when auto_update) is issued
\* completely before the next channel's sequence starts.
C20_LevelThenEachChannel ==
    \A c \in Callers :
        (cs[c].op = "enable_modulation" /\ Returned(c)) =>
            LET active == Sorted(ArgChannels(c))
            IN  /\ OrderOf(c) = ModulationOrder(Len(active))
                /\ Len(SelectsOf(c)) = Len(active)
                /\ \A n \in 1..Len(active) :
                      MaskOf(SelectsOf(c)[n]) = MaskChannel0Last({active[n] % 4})

\* C20 witness: enable_modulation(level=4, active_channels=[0, 1]) has
\* returned with auto_update true.
C20_Witness ==
    \E c \in Callers :
        /\ cs[c].op = "enable_modulation" /\ Returned(c) /\ auto_update
        /\ cs[c].args.level = 4 /\ ArgChannels(c) = <<0, 1>>
        /\ Len(OrderOf(c)) = 16

\* the i-th call is a begin-readback (07 00 size) that reached the control
\* endpoint
BeginsRead(i) == IsBeginReadback(log[i]) /\ log[i].ok
\* the i-th call is the read command: 01 and 7 address bits, on the data
\* endpoint
ReadCommandAt(i) ==
    /\ IsReadCommand(log[i]) /\ Len(log[i].data) = 8
    /\ \A n \in 2..8 : log[i].data[n] \in {0, 1}
\* the i-th call is one bulk read of `size` bytes from the readback endpoint
BulkReadAt(i, size) == IsBulkRead(log[i]) /\ log[i].size = size
\* the i-th call is end-readback (04 00) on the control endpoint
EndReadAt(i) == log[i].ep = "ep1" /\ log[i].dir = "w" /\ log[i].data = <<4, 0>>
\* the calls from i to k are all by caller c
AllBy(c, i, k) == \A n \in i..k : By(c, n)

PerChannelOps == {"set_frequency", "set_phase", "enable_modulation",
                  "configure_linear_sweep", "_enable_channel_modulation"}
\* the channels of caller c in the order its operation selects them
SelectionOrder(c) ==
    IF cs[c].op \in {"enable_modulation", "configure_linear_sweep"}
    THEN Sorted(ArgChannels(c)) ELSE ArgChannels(c)
InvalidChannel(c) ==
    \E j \in 1..Len(SelectionOrder(c)) : ~index_ok(SelectionOrder(c)[j])
\* the number of channel selections of caller c that come before the one
\* that raises IndexError: set_frequency and set_phase select all their
\* channels in one step, the other operations one channel after the other
SelectedBeforeInvalid(c) ==
    LET l == SelectionOrder(c)
    IN  IF cs[c].op \in {"set_frequency", "set_phase"} THEN 0
        ELSE Cardinality({j \in 1..Len(l) : \A n \in 1..j : index_ok(l[n])})
\* the i-th call belongs to a channel-select step: the read of the 8-bit
\* register 0x00 or the write to it
IsSelectCall(i) ==
    LET e == log[i]
    IN  \/ IsBeginReadback(e) /\ e.data[3] = 8
        \/ IsReadCommand(e) /\ RegisterOf(e) = 0
        \/ IsBulkRead(e) /\ e.size = 8
        \/ IsEndReadback(e) /\ i > 1 /\ IsBulkRead(log[i - 1]) /\ log[i - 1].size = 8
        \/ IsRegisterWrite(e) /\ RegisterOf(e) = 0
LoadsOf(c) == {i \in Pos : By(c, i) /\ IsLoad(log[i])}
UpdatesOf(c) == {i \in Pos : By(c, i) /\ IsUpdate(log[i])}

\* C22: once the channel-select step of a per-channel operation has failed,
\* the operation issues no per-channel register write and no Load or Update
\* I/O.  After a transport error in the read or the write of register 0x00
\* the caller issues no such call; an operation given an invalid channel
\* writes each per-channel register and latches at most once for each channel
\* selected before the invalid one (enable_modulation latches once more, for
\* function register 0x01, before it selects a channel), and ends by an
\* exception.
C22_NoWriteAfterFailedSelect ==
    \A c \in Sequential :
        /\ \A i \in Pos : (By(c, i) /\ ~log[i].ok /\ IsSelectCall(i)) =>
              \A k \in (i + 1)..Len(log) :
                  By(c, k) => ~(WritesTo(k, PerChannelRegisters)
                                \/ IsLoad(log[k]) \/ IsUpdate(log[k]))
        /\ (cs[c].op \in PerChannelOps /\ InvalidChannel(c)) =>
              LET p == SelectedBeforeInvalid(c)
                  q == IF cs[c].op = "enable_modulation" THEN p + 1 ELSE p
              IN  /\ \A r \in PerChannelRegisters : Cardinality(WritesOf(c, {r})) <= p
                  /\ Cardinality(LoadsOf(c)) <= q
                  /\ Cardinality(UpdatesOf(c)) <= q
                  /\ Finished(c) => Raised(c)

\* C22 witness: configure_linear_sweep on the channels 0 and 4 has set up
\* channel 0 (one write of 0x03, one Load I/O) and ended by the IndexError of
\* the second channel select.
C22_Witness ==
    \E c \in Sequential :
        /\ cs[c].op = "configure_linear_sweep" /\ ArgChannels(c) = <<0, 4>>
        /\ Raised(c) /\ cs[c].exc = "IndexError"
        /\ Cardinality(WritesOf(c, {3})) = 1 /\ Cardinality(LoadsOf(c)) = 1
        /\ \A i \in Pos : log[i].ok

\* ---------------------------------------------------------------- C23
\* the width in bits of a register of the chip
RegisterWidth(register) ==
    IF register = 0 THEN 8
    ELSE IF register \in {1, 3} THEN 24
    ELSE IF register \in {5, 7} THEN 16
    ELSE 32

\* C23: every register-write command carries a payload of exactly the target
\* register's width in bits (8 for 0x00, 24 for 0x01 and 0x03, 16 for 0x05
\* and 0x07, 32 for 0x04, 0x08, 0x09 and the channel-word registers), each
\* payload byte being 0 or 1, the delta words of configure_linear_sweep
\* included.
C23_PayloadWidth ==
    \A i \in Pos :
        IsRegisterWrite(log[i]) =>
            /\ Len(PayloadOf(log[i])) = RegisterWidth(RegisterOf(log[i]))
            /\ IsBits(PayloadOf(log[i]))

\* ---------------------------------------------------------------- C24
\* the content of the channel-select register that caller c read last
CsrRead(c) == log[LastReadBefore(c, Len(log) + 1)].data
\* what set_frequency(frequency, channel, channel_word=0) does for the
\* arguments of caller c
SetFrequencyOf(c) ==
    set_frequency_prog(cs[c].args.frequency, cs[c].args.channel, 0,
                       system_clock_frequency, auto_update)
\* the message set_frequency sends for its n-th step when the channel-select
\* register holds what caller c read
SetFrequencySends(c, n) ==
    write_message(SetFrequencyOf(c)[n].reg,
                  new_word(SetFrequencyOf(c)[n], CsrRead(c), system_clock_frequency))

\* C24: the two messages precompute_frequency_word(channel, frequency)
\* returns are byte for byte the channel-select write and the write of
\* frequency register 0x04 that set_frequency(frequency, channel,
\* channel_word=0) sends from the same channel-select register content; the
\* call returns them for every valid channel set and every frequency from 0
\* to the system clock when no transport call fails, and it issues no
\* register write and no Load or Update I/O.
C24_PrecomputeMatchesSetFrequency ==
    \A c \in Sequential :
        (cs[c].op = "precompute_frequency_word") =>
            /\ \A i \in Pos : By(c, i) =>
                  ~(IsRegisterWrite(log[i]) \/ IsLoad(log[i]) \/ IsUpdate(log[i]))
            /\ Returned(c) =>
                  LET P == SetFrequencyOf(c)
                  IN  /\ Len(cs[c].result) = 2
                      /\ Len(P) >= 4
                      /\ P[1].k = "read" /\ P[1].reg = 0
                      /\ P[2].k = "write" /\ P[2].reg = 0
                      /\ P[3].k = "write" /\ P[3].reg = 4
                      /\ P[4].k = "load"
                      /\ cs[c].result[1] = SetFrequencySends(c, 2)
                      /\ cs[c].result[2] = SetFrequencySends(c, 3)
            /\ ( /\ Finished(c)
                 /\ \A i \in Pos : log[i].ok
                 /\ cs[c].args.channel.t # "none"
                 /\ \A j \in 1..Len(ArgChannels(c)) : index_ok(ArgChannels(c)[j])
                 /\ 0 <= cs[c].args.frequency
                 /\ cs[c].args.frequency <= system_clock_frequency ) => Returned(c)

\* C24 witness: precompute_frequency_word([0, 3], 10) has returned its two
\* messages, the first with the mask 1001 in front of the four bits read.
C24_Witness ==
    \E c \in Sequential :
        /\ cs[c].op = "precompute_frequency_word" /\ Returned(c)
        /\ ArgChannels(c) = <<0, 3>> /\ cs[c].args.frequency = 10
        /\ Len(cs[c].result) = 2
        /\ SubSeq(cs[c].result[1], 9, 12) = <<1, 0, 0, 1>>
        /\ SubSeq(cs[c].result[1], 13, 16) = SubSeq(CsrRead(c), 5, 8)
        /\ \E n \in 5..8 : CsrRead(c)[n] = 1
        /\ Len(cs[c].result[2]) = 40

\* ---------------------------------------------------------------- C25
\* a register write, Load I/O or Update I/O command
IsCommand(e) == IsRegisterWrite(e) \/ IsLoad(e) \/ IsUpdate(e)
\* the call just made is such a command
CommandSent == Len(log') = Len(log) + 1 /\ IsCommand(log'[Len(log')])
\* the most recent begin-readback before the i-th call has been followed by
\* an end-readback
ReadbackClosedBefore(i) ==
    \A j \in 1..(i - 1) :
        (IsBeginReadback(log[j]) /\ \A n \in (j + 1)..(i - 1) : ~IsBeginReadback(log[n])) =>
            \E k \in (j + 1)..(i - 1) : EndReadAt(k) /\ log[k].ok

\* C25: for a single caller, over any sequence of operations, operations
\* aborted by a transport error included, the bridge is not in readback mode
\* when a register write, Load I/O or Update I/O command is sent: the most
\* recent begin-readback before the command has been followed by an
\* end-readback.
C25_NoCommandInReadback ==
    /\ [](\A i \in Pos : IsCommand(log[i]) => ReadbackClosedBefore(i))
    /\ [][CommandSent => ~readback]_vars

\* C25 witness: a transport error cut a register read short after its
\* begin-readback, and a register write was sent later, after a complete
\* read, with the bridge out of readback mode.
C25_Witness ==
    \E f \in Pos : \E i \in Pos :
        /\ f > 1 /\ ~log[f].ok /\ BeginsRead(f - 1)
        /\ i > f /\ IsRegisterWrite(log[i]) /\ log[i].ok
        /\ EndReadAt(i - 1) /\ log[i - 1].ok
        /\ ~readback

====
